---------------------------- MODULE Spec2Model ----------------------------
(***************************************************************************)
(* Model of nest::VPManager (nestkernel/vp_manager.cpp): the thread count  *)
(* of a process, the force_singlethreading_ flag, the guarded set_status   *)
(* protocol that changes the thread count, and the VP <-> thread mappings. *)
(*                                                                         *)
(* Two specifications share the variables:                                 *)
(*   Spec     the manager after construction, driven by init, reset,       *)
(*            set_status and by the surrounding kernel, which makes the    *)
(*            locking conditions true;                                     *)
(*   SpecMap  the pure mapping functions, applied to every topology        *)
(*            (simulating processes, recording processes, threads, rank)   *)
(*            within the bounds.                                           *)
(***************************************************************************)
EXTENDS Integers, Sequences, FiniteSets, TLC

VARIABLES
  n_threads_,              \* VPManager::n_threads_
  force_singlethreading_,  \* VPManager::force_singlethreading_
  nodes_vec_size,          \* Network::nodes_vec_.size()
  comm_n_threads,          \* thread count last given to Communicator::set_num_threads
  locks,                   \* the locking conditions that hold now, a subset of 1..7
  openmp,                  \* whether the build defines _OPENMP
  n_sim_procs_,            \* Network::n_sim_procs_
  n_rec_procs_,            \* Network::n_rec_procs_
  rank,                    \* Communicator::get_rank()
  call,                    \* the last call of a mutating operation and what it did
  query                    \* the last call of a pure function and what it returned

vars == <<n_threads_, force_singlethreading_, nodes_vec_size, comm_n_threads,
          locks, openmp, n_sim_procs_, n_rec_procs_, rank, call, query>>

---------------------------------------------------------------------------
(* Bounds of the model.                                                    *)

\* largest thread count a request asks for
MaxThreads == 3
\* largest number of simulating processes
MaxSim == 2
\* largest number of recording processes (SpecMap)
MaxRec == 2
\* largest global id given to suggest_vp and suggest_rec_vp (SpecMap)
MaxGid == 13

---------------------------------------------------------------------------
(* C++ integer arithmetic: / truncates toward zero, % has the sign of the  *)
(* dividend.  The divisor is always a positive process count here.         *)

CQuot(a, b) == IF a >= 0 THEN a \div b ELSE -((-a) \div b)

CRem(a, b) == a - b * CQuot(a, b)

---------------------------------------------------------------------------
(* The collaborators' read-only queries.                                   *)

\* Communicator::get_num_processes(): the simulating and the recording pool
get_num_processes == n_sim_procs_ + n_rec_procs_

\* The seven conditions set_status tests, in the order it tests them, with
\* the text of the KernelException each raises.
LockMessages ==
  << "Nodes exist", "Custom neuron models exist", "Custom synapse types exist",
     "Delay extrema have been set", "The network has been simulated",
     "The resolution has been set", "Model defaults have been modified" >>

LockConditions == 1..Len(LockMessages)

\* The first condition of the if-chain that holds, 0 when none does.
FirstLock_SkipsLast ==
  IF locks \ {Len(LockMessages)} = {} THEN 0
  ELSE CHOOSE c \in locks \ {Len(LockMessages)} :
         \A o \in locks \ {Len(LockMessages)} : c <= o

FirstLock_LastFirst ==
  IF locks = {} THEN 0 ELSE CHOOSE c \in locks : \A o \in locks : c >= o

FirstLock ==
  IF locks = {} THEN 0 ELSE CHOOSE c \in locks : \A o \in locks : c <= o

---------------------------------------------------------------------------
(* The manager and its collaborators as one value, so that the sequential  *)
(* code of a call is a composition of steps.  The last five fields are     *)
(* what the call did besides changing state: the exception it ended with,  *)
(* the exception's text, the message it logged, whether it reached         *)
(* Network::reset(), and the notifications it gave to the owners of        *)
(* per-thread resources, in order, each with the thread count it carried.  *)

K ==
  [ n_threads_ |-> n_threads_,
    force_singlethreading_ |-> force_singlethreading_,
    nodes_vec_size |-> nodes_vec_size,
    comm_n_threads |-> comm_n_threads,
    exception |-> "none",
    what |-> "",
    message |-> "none",
    network_reset |-> FALSE,
    notifications |-> <<>> ]

Notify(k, whom) ==
  [k EXCEPT !.notifications = Append(@, <<whom, k.n_threads_>>)]

Throw(k, exception, what) == [k EXCEPT !.exception = exception, !.what = what]

\* VPManager::get_num_threads() (vp_manager.h): the thread count
get_num_threads(k) == k.n_threads_

\* VPManager::set_num_threads.  nodes_vec_.resize takes a size_t: a negative
\* count converts to a size above max_size() and resize throws
\* std::length_error, after n_threads_ was assigned and before the
\* Communicator is told.
set_num_threads_NoCommunicator(k, n) ==
  LET k1 == [k EXCEPT !.n_threads_ = n] IN
  IF n < 0 THEN Throw(k1, "length_error", "vector::resize")
  ELSE Notify([k1 EXCEPT !.nodes_vec_size = n], "nodes_vec_.resize")

set_num_threads(k, n) ==
  LET k1 == [k EXCEPT !.n_threads_ = n] IN
  IF n < 0 THEN Throw(k1, "length_error", "vector::resize")
  ELSE Notify(Notify([k1 EXCEPT !.nodes_vec_size = n, !.comm_n_threads = n],
                     "nodes_vec_.resize"),
              "Communicator::set_num_threads")

\* VPManager::init
init(k) ==
  LET k1 == IF ~openmp /\ k.n_threads_ > 1
            THEN [k EXCEPT !.message = "M_ERROR",
                           !.n_threads_ = 1,
                           !.force_singlethreading_ = TRUE]
            ELSE k
  IN set_num_threads(k1, get_num_threads(k1))

\* VPManager::reset
reset(k) == set_num_threads([k EXCEPT !.force_singlethreading_ = FALSE], 1)

\* Network::reset(): the notification to the owners of per-thread resources
NetworkReset(k) == Notify([k EXCEPT !.network_reset = TRUE], "Network::reset")

---------------------------------------------------------------------------
(* VPManager::set_status.  A dictionary maps each of the two keys to an    *)
(* entry that is absent or holds a long.                                   *)

Absent == [present |-> FALSE, value |-> 0]

Entry(v) == [present |-> TRUE, value |-> v]

\* updateValue< long >( d, key, var ): whether the key is there
updateValue(d, key) == d[key].present

\* the branch taken when the dictionary holds local_num_threads
LocalBranch_ChecksAfterCommit(k, n_threads) ==
  LET k1 == IF n_threads > 1 /\ k.force_singlethreading_
            THEN [k EXCEPT !.message = "M_WARNING", !.n_threads_ = 1]
            ELSE k
      k2 == reset([k1 EXCEPT !.n_threads_ = n_threads])
  IN IF FirstLock # 0
     THEN Throw(k2, "KernelException", LockMessages[FirstLock])
     ELSE k2

LocalBranch(k, n_threads) ==
  IF FirstLock # 0 THEN Throw(k, "KernelException", LockMessages[FirstLock])
  ELSE
    LET k1 == IF n_threads > 1 /\ k.force_singlethreading_
              THEN [k EXCEPT !.message = "M_WARNING", !.n_threads_ = 1]
              ELSE k
        k2 == [k1 EXCEPT !.n_threads_ = n_threads]
    IN reset(k2)

\* n_vps / Communicator::get_num_processes()
VpsThreads_NoDivision(n_vps) == n_vps

VpsThreads(n_vps) == CQuot(n_vps, get_num_processes)

\* the branch taken when the dictionary holds total_num_virtual_procs;
\* n_threads is the local variable of set_status, which this branch reads
VpsBranch_DivisibilityFirst(k, n_threads, n_vps) ==
  IF CRem(n_vps, get_num_processes) # 0
  THEN Throw(k, "BadProperty", "Number of virtual processes")
  ELSE IF FirstLock # 0
  THEN Throw(k, "KernelException", LockMessages[FirstLock])
  ELSE
    LET k1 == [k EXCEPT !.n_threads_ = VpsThreads(n_vps)]
        k2 == IF n_threads > 1 /\ k1.force_singlethreading_
              THEN [k1 EXCEPT !.message = "M_WARNING", !.n_threads_ = 1]
              ELSE k1
        k3 == set_num_threads(k2, k2.n_threads_)
    IN IF k3.exception # "none" THEN k3 ELSE NetworkReset(k3)

VpsBranch(k, n_threads, n_vps) ==
  IF FirstLock # 0 THEN Throw(k, "KernelException", LockMessages[FirstLock])
  ELSE IF CRem(n_vps, get_num_processes) # 0
  THEN Throw(k, "BadProperty", "Number of virtual processes")
  ELSE
    LET k1 == [k EXCEPT !.n_threads_ = VpsThreads(n_vps)]
        k2 == IF n_threads > 1 /\ k1.force_singlethreading_
              THEN [k1 EXCEPT !.message = "M_WARNING", !.n_threads_ = 1]
              ELSE k1
        k3 == set_num_threads(k2, k2.n_threads_)
    IN IF k3.exception # "none" THEN k3 ELSE NetworkReset(k3)

\* The whole call.  The local n_threads is assigned only when the
\* dictionary holds local_num_threads; otherwise the second branch reads it
\* uninitialized, and `indeterminate` is the value it then happens to hold.
set_status_ChecksWithoutKey(k, d, indeterminate) ==
  IF FirstLock # 0 THEN Throw(k, "KernelException", LockMessages[FirstLock])
  ELSE
    LET n_threads == IF updateValue(d, "local_num_threads")
                     THEN d["local_num_threads"].value
                     ELSE indeterminate
        k1 == IF updateValue(d, "local_num_threads")
              THEN LocalBranch(k, n_threads)
              ELSE k
    IN IF k1.exception # "none" \/ ~updateValue(d, "total_num_virtual_procs")
       THEN k1
       ELSE VpsBranch(k1, n_threads, d["total_num_virtual_procs"].value)

set_status(k, d, indeterminate) ==
  LET n_threads == IF updateValue(d, "local_num_threads")
                   THEN d["local_num_threads"].value
                   ELSE indeterminate
      k1 == IF updateValue(d, "local_num_threads")
            THEN LocalBranch(k, n_threads)
            ELSE k
  IN IF k1.exception # "none" \/ ~updateValue(d, "total_num_virtual_procs")
     THEN k1
     ELSE VpsBranch(k1, n_threads, d["total_num_virtual_procs"].value)

\* VPManager::get_num_virtual_processes() (vp_manager.h)
get_num_virtual_processes == n_threads_ * get_num_processes

\* VPManager::get_status
get_status ==
  [ local_num_threads |-> n_threads_,
    total_num_virtual_procs |-> get_num_virtual_processes ]

---------------------------------------------------------------------------
(* Inputs.                                                                 *)

\* values of local_num_threads: a negative one, zero, and 1..MaxThreads
LntVals == -1 .. MaxThreads

\* values of total_num_virtual_procs: for each quotient -1..MaxThreads the
\* multiple of the process count and the value after it
VpsVals == { q * get_num_processes + r : q \in -1 .. MaxThreads, r \in 0 .. 1 }

Dicts ==
  { [ local_num_threads |-> a, total_num_virtual_procs |-> b ] :
      a \in {Absent} \cup { Entry(n) : n \in LntVals },
      b \in {Absent} \cup { Entry(v) : v \in VpsVals } }

EmptyDict == [ local_num_threads |-> Absent, total_num_virtual_procs |-> Absent ]

\* what an uninitialized long may hold, as far as `n_threads > 1` tells
Indeterminate == {0, 2}

---------------------------------------------------------------------------
(* The state machine.                                                      *)

NoCall ==
  [ op |-> "none", d |-> EmptyDict, exception |-> "none", what |-> "",
    message |-> "none", network_reset |-> FALSE, notifications |-> <<>>,
    pre_threads |-> 0, pre_force |-> FALSE ]

NoQuery == [ op |-> "none", arg |-> 0, result |-> 0 ]

\* The state after a call that left the manager and its collaborators as k.
\* The kernel runs on one control path: a call starts only when the one
\* before it has returned.
Commit(k, op, d) ==
  /\ call = NoCall
  /\ n_threads_' = k.n_threads_
  /\ force_singlethreading_' = k.force_singlethreading_
  /\ nodes_vec_size' = k.nodes_vec_size
  /\ comm_n_threads' = k.comm_n_threads
  /\ call' = [ op |-> op, d |-> d, exception |-> k.exception, what |-> k.what,
               message |-> k.message, network_reset |-> k.network_reset,
               notifications |-> k.notifications,
               pre_threads |-> n_threads_, pre_force |-> force_singlethreading_ ]
  /\ query' = NoQuery
  /\ UNCHANGED <<locks, openmp, n_sim_procs_, n_rec_procs_, rank>>

\* VPManager::VPManager(), in a kernel with nothing created yet.  The guard
\* reads the two pool sizes only through their sum, so one recording process
\* and rank 0 stand for every split here; SpecMap draws them all.
Init ==
  /\ n_threads_ = 1
  /\ force_singlethreading_ = FALSE
  /\ nodes_vec_size = 1
  /\ comm_n_threads = 1
  /\ locks = {}
  /\ openmp \in BOOLEAN
  /\ n_sim_procs_ \in 1 .. MaxSim
  /\ n_rec_procs_ = 1
  /\ rank = 0
  /\ call = NoCall
  /\ query = NoQuery

Call_init == \E k \in {init(K)} : Commit(k, "init", EmptyDict)

Call_reset == \E k \in {reset(K)} : Commit(k, "reset", EmptyDict)

Call_set_status ==
  \E d \in Dicts, indeterminate \in Indeterminate :
    Commit(set_status(K, d, indeterminate), "set_status", d)

\* The surrounding kernel creates a node, registers a model, simulates, ...:
\* one more locking condition holds from now on.
LockArises ==
  \E c \in LockConditions \ locks :
    /\ call = NoCall
    /\ locks' = locks \cup {c}
    /\ call' = NoCall
    /\ query' = NoQuery
    /\ UNCHANGED <<n_threads_, force_singlethreading_, nodes_vec_size,
                   comm_n_threads, openmp, n_sim_procs_, n_rec_procs_, rank>>

\* The call returns to its caller, which takes the outcome.
Return ==
  /\ call # NoCall
  /\ call' = NoCall
  /\ query' = NoQuery
  /\ UNCHANGED <<n_threads_, force_singlethreading_, nodes_vec_size,
                 comm_n_threads, locks, openmp, n_sim_procs_, n_rec_procs_, rank>>

Next == Call_init \/ Call_reset \/ Call_set_status \/ Return \/ LockArises

Spec == Init /\ [][Next]_vars

---------------------------------------------------------------------------
(* The VP <-> thread mappings and the specification that applies them.     *)

\* VPManager::vp_to_thread
vp_to_thread_IgnoresRank(vp) ==
  IF vp >= n_sim_procs_ * n_threads_
  THEN CQuot(vp + n_sim_procs_ * (1 - n_threads_), n_rec_procs_)
  ELSE CQuot(vp, n_sim_procs_)

vp_to_thread(vp) ==
  IF vp >= n_sim_procs_ * n_threads_
  THEN CQuot(vp + n_sim_procs_ * (1 - n_threads_) - rank, n_rec_procs_)
  ELSE CQuot(vp, n_sim_procs_)

\* VPManager::thread_to_vp in the process whose Communicator::get_rank()
\* is r
thread_to_vp_at_NoPoolOffset(r, t) ==
  IF r >= n_sim_procs_
  THEN t * n_rec_procs_ + r + n_sim_procs_ * n_threads_
  ELSE t * n_sim_procs_ + r

thread_to_vp_at(r, t) ==
  IF r >= n_sim_procs_
  THEN t * n_rec_procs_ + r - n_sim_procs_ + n_sim_procs_ * n_threads_
  ELSE t * n_sim_procs_ + r

\* VPManager::thread_to_vp in this process
thread_to_vp(t) == thread_to_vp_at(rank, t)

\* the ranks: the simulating processes, then the recording processes
Ranks == 0 .. get_num_processes - 1

\* Network::get_process_id( vp ): the rank that owns a VP.  Simulating VPs
\* are laid out as thread * simProcesses + rank, recording VPs likewise
\* behind them.
get_process_id(vp) ==
  IF vp >= n_sim_procs_ * n_threads_
  THEN ((vp - n_sim_procs_ * n_threads_) % n_rec_procs_) + n_sim_procs_
  ELSE vp % n_sim_procs_

\* VPManager::is_local_vp
is_local_vp(vp) == get_process_id(vp) = rank

\* VPManager::suggest_vp
suggest_vp_AllProcesses(gid) == gid % (get_num_processes * n_threads_)

suggest_vp(gid) == gid % (n_sim_procs_ * n_threads_)

\* VPManager::suggest_rec_vp
suggest_rec_vp_NoOffset(gid) == gid % (n_rec_procs_ * n_threads_)

suggest_rec_vp(gid) ==
  (gid % (n_rec_procs_ * n_threads_)) + n_sim_procs_ * n_threads_

\* the global ids
Gids == 0 .. MaxGid

\* the local thread indices and the VP address space
Threads == 0 .. n_threads_ - 1

VPs == 0 .. get_num_virtual_processes - 1

\* A process of a kernel whose thread count was set to 1..MaxThreads, at
\* every rank of every split into simulating and recording processes.
InitMap ==
  /\ n_threads_ \in 1 .. MaxThreads
  /\ force_singlethreading_ = FALSE
  /\ nodes_vec_size = n_threads_
  /\ comm_n_threads = n_threads_
  /\ locks = {}
  /\ openmp = TRUE
  /\ n_sim_procs_ \in 1 .. MaxSim
  /\ n_rec_procs_ \in 1 .. MaxRec
  /\ rank \in 0 .. n_sim_procs_ + n_rec_procs_ - 1
  /\ call = NoCall
  /\ query = NoQuery

Answer(op, arg, result) ==
  /\ query' = [ op |-> op, arg |-> arg, result |-> result ]
  /\ UNCHANGED <<n_threads_, force_singlethreading_, nodes_vec_size,
                 comm_n_threads, locks, openmp, n_sim_procs_, n_rec_procs_,
                 rank, call>>

Call_thread_to_vp == \E t \in Threads : Answer("thread_to_vp", t, thread_to_vp(t))

Call_vp_to_thread == \E vp \in VPs : Answer("vp_to_thread", vp, vp_to_thread(vp))

Call_suggest_vp == \E gid \in Gids : Answer("suggest_vp", gid, suggest_vp(gid))

Call_suggest_rec_vp ==
  \E gid \in Gids : Answer("suggest_rec_vp", gid, suggest_rec_vp(gid))

Call_is_local_vp == \E vp \in VPs : Answer("is_local_vp", vp, is_local_vp(vp))

NextMap ==
  \/ Call_is_local_vp
  \/ Call_thread_to_vp
  \/ Call_vp_to_thread
  \/ Call_suggest_vp
  \/ Call_suggest_rec_vp

SpecMap == InitMap /\ [][NextMap]_vars

---------------------------------------------------------------------------
(* What a set_status call asked for.                                       *)

IsSetStatus == call.op = "set_status"

HasLnt == call.d["local_num_threads"].present

HasVps == call.d["total_num_virtual_procs"].present

Lnt == call.d["local_num_threads"].value

Vps == call.d["total_num_virtual_procs"].value

\* every value the call carries is positive
PositiveRequest == (HasLnt => Lnt >= 1) /\ (HasVps => Vps >= 1)

---------------------------------------------------------------------------
(* The claims.                                                             *)

\* C1: while a locking condition holds, a set_status call that carries
\* local_num_threads and/or total_num_virtual_procs ends with a
\* KernelException, and the thread count get_status reports afterwards is the
\* thread count before the call.
C1_LockedRejected ==
  (IsSetStatus /\ locks # {} /\ (HasLnt \/ HasVps)) =>
    /\ call.exception = "KernelException"
    /\ n_threads_ = call.pre_threads
    /\ get_status.local_num_threads = call.pre_threads

C1_Witness ==
  /\ IsSetStatus /\ locks = {Len(LockMessages)}
  /\ HasVps /\ ~HasLnt /\ Vps = 3 * get_num_processes
  /\ call.pre_threads = 2
  /\ call.exception = "KernelException"

\* C2: with no locking condition and the degraded flag clear, set_status
\* with local_num_threads = n >= 1 is accepted and get_status then reports
\* local_num_threads = n and total_num_virtual_procs = n * processes.
C2_LocalThreadsCommitted ==
  (IsSetStatus /\ HasLnt /\ ~HasVps /\ Lnt >= 1 /\ locks = {} /\ ~call.pre_force) =>
    /\ call.exception = "none"
    /\ get_status.local_num_threads = Lnt
    /\ get_status.total_num_virtual_procs = Lnt * get_num_processes

\* C3: with no locking condition, a set_status call whose
\* total_num_virtual_procs is no multiple of the process count ends with
\* BadProperty and leaves thread count and degraded flag as they were,
\* with or without local_num_threads in the same call.  Stated for the
\* calls that carry positive values and start from a thread count of at
\* least 1, so that a violation does not rest on C4's case.
C3_BadPropertyChangesNothing ==
  (IsSetStatus /\ locks = {} /\ HasVps /\ CRem(Vps, get_num_processes) # 0
     /\ PositiveRequest /\ call.pre_threads >= 1) =>
    /\ call.exception = "BadProperty"
    /\ n_threads_ = call.pre_threads
    /\ force_singlethreading_ = call.pre_force

\* C4: the thread count is at least 1 after every init, reset and
\* set_status call, whatever integers the call carries.  Stated for the
\* calls that end without an exception, so that a violation is a thread
\* count the manager accepted.
C4_ThreadsAtLeastOne ==
  (call.op \in {"init", "reset", "set_status"} /\ call.exception = "none") =>
    n_threads_ >= 1

\* C5: with no locking condition and the degraded flag clear, set_status
\* with only total_num_virtual_procs = N, N a positive multiple of the
\* process count P, is accepted, sets the thread count to N / P, and
\* get_status then reports total_num_virtual_procs = N and
\* local_num_threads = N / P.
C5_VpsCommitted ==
  (IsSetStatus /\ ~HasLnt /\ HasVps /\ Vps > 0
     /\ CRem(Vps, get_num_processes) = 0 /\ locks = {} /\ ~call.pre_force) =>
    /\ call.exception = "none"
    /\ n_threads_ * get_num_processes = Vps
    /\ get_status.total_num_virtual_procs = Vps
    /\ get_status.local_num_threads * get_num_processes = Vps

C5_Witness ==
  /\ IsSetStatus /\ ~HasLnt /\ HasVps /\ locks = {} /\ ~call.pre_force
  /\ get_num_processes = 3 /\ Vps = 6
  /\ call.pre_threads = 1 /\ n_threads_ = 2
  /\ call.exception = "none"

\* C6: at the end of an init, reset or set_status call, if the degraded
\* flag is set the thread count is exactly 1.  Stated for the calls that
\* carry positive values and start from a thread count of at least 1, so
\* that a violation is a thread count above 1 and does not rest on C4's case.
C6_DegradedMeansOneThread ==
  (call.op \in {"init", "reset", "set_status"} /\ PositiveRequest
     /\ call.pre_threads >= 1 /\ force_singlethreading_) =>
    n_threads_ = 1

\* C7: once set, the degraded flag stays set across init and set_status;
\* only reset clears it.  Stated for the calls that carry positive values.
C7_DegradedRatchet ==
  (call.op \in {"init", "set_status"} /\ PositiveRequest /\ call.pre_force) =>
    force_singlethreading_

\* C8: in degraded mode with no locking condition, a request for more than
\* one thread (local_num_threads = n > 1, or total_num_virtual_procs = n * P
\* with n > 1) raises no error, logs a warning and commits thread count 1.
C8_DegradedRequestClamped ==
  (IsSetStatus /\ locks = {} /\ ~openmp /\ call.pre_force
     /\ \/ HasLnt /\ ~HasVps /\ Lnt > 1
        \/ ~HasLnt /\ HasVps /\ CRem(Vps, get_num_processes) = 0
             /\ Vps > get_num_processes) =>
    /\ call.exception = "none"
    /\ call.message = "M_WARNING"
    /\ n_threads_ = 1

\* C9: at the end of every init, reset and set_status call, the thread count
\* last given to Communicator::set_num_threads and the size of the per-thread
\* node vector both equal the manager's thread count.
C9_CollaboratorsInStep ==
  call.op \in {"init", "reset", "set_status"} =>
    /\ comm_n_threads = n_threads_
    /\ nodes_vec_size = n_threads_

\* C10: at every rank, vp_to_thread gives back t for the VP that
\* thread_to_vp gives for thread t.
C10_RoundTrip ==
  query.op = "vp_to_thread" =>
    \A t \in Threads : query.arg = thread_to_vp(t) => query.result = t

C10_Witness ==
  /\ query.op = "vp_to_thread"
  /\ n_sim_procs_ = 2 /\ n_rec_procs_ = 2 /\ rank = 3 /\ n_threads_ = 3
  /\ query.arg = thread_to_vp(2)
  /\ query.result = 2

\* C11: suggest_vp(gid) lies in [0, simProcesses * threads), differs from
\* gid by a multiple of simProcesses * threads (it is gid mod that product),
\* and is the same for gid + simProcesses * threads.
C11_SuggestVp ==
  query.op = "suggest_vp" =>
    LET period == n_sim_procs_ * n_threads_ IN
    /\ query.result \in 0 .. period - 1
    /\ \E k \in 0 .. query.arg : query.arg = k * period + query.result
    /\ suggest_vp(query.arg + period) = query.result

C11_Witness ==
  /\ query.op = "suggest_vp"
  /\ n_sim_procs_ = 2 /\ n_rec_procs_ = 1 /\ n_threads_ = 3
  /\ query.arg = 13 /\ query.result = 1

\* C12: suggest_rec_vp(gid) is simProcesses * threads plus
\* gid mod (recProcesses * threads); it lies in the recording range
\* [simProcesses * threads, totalVPs) and so is no value of suggest_vp.
C12_SuggestRecVp ==
  query.op = "suggest_rec_vp" =>
    LET base == n_sim_procs_ * n_threads_
        period == n_rec_procs_ * n_threads_
    IN
    /\ query.result \in base .. base + period - 1
    /\ base + period = get_num_virtual_processes
    /\ \E k \in 0 .. query.arg : query.arg = k * period + (query.result - base)
    /\ suggest_rec_vp(query.arg + period) = query.result
    /\ \A gid \in Gids : suggest_vp(gid) # query.result

\* the spec's scenario: 2 simulating, 1 recording process, 3 threads, id 7
C12_Witness ==
  /\ query.op = "suggest_rec_vp"
  /\ n_sim_procs_ = 2 /\ n_rec_procs_ = 1 /\ n_threads_ = 3
  /\ query.arg = 7 /\ query.result = 7


\* the notifications of one set_num_threads(n) that ran to its end
Renotified(n) ==
  << <<"nodes_vec_.resize", n>>, <<"Communicator::set_num_threads", n>> >>

\* C13: reset(), from any reachable state, leaves thread count 1 and the
\* degraded flag clear and notifies the node vector and the Communicator
\* with thread count 1: the state the manager had at construction.
C13_ResetRestoresConstruction ==
  call.op = "reset" =>
    /\ call.exception = "none"
    /\ n_threads_ = 1
    /\ ~force_singlethreading_
    /\ nodes_vec_size = 1
    /\ comm_n_threads = 1
    /\ call.notifications = Renotified(1)

C13_Witness ==
  /\ call.op = "reset"
  /\ call.pre_force /\ locks # {}
  /\ n_threads_ = 1 /\ ~force_singlethreading_


\* C14: for a VP in [0, totalVPs) that the caller's rank does not own,
\* vp_to_thread never returns a value in [0, threads), which would pass
\* for a local thread index.
C14_NotOwnedIsExplicit ==
  (query.op = "vp_to_thread" /\ ~is_local_vp(query.arg)
     /\ \A t \in Threads : thread_to_vp(t) # query.arg) =>
    query.result \notin Threads


\* C15: when several locking conditions hold, the rejection names exactly
\* one, the first that holds in the order nodes, neuron models, synapse
\* types, delay extrema, simulated, resolution, model defaults; the same
\* one for a local_num_threads and for a total_num_virtual_procs request.
C15_FirstConditionNamed ==
  (IsSetStatus /\ locks # {} /\ (HasLnt \/ HasVps)) =>
    \E c \in locks :
      /\ \A o \in locks : c <= o
      /\ call.what = LockMessages[c]
      /\ \A o \in LockConditions \ {c} : call.what # LockMessages[o]

C15_Witness ==
  /\ IsSetStatus /\ locks = {3, 5, 6}
  /\ HasVps /\ ~HasLnt
  /\ call.what = "Custom synapse types exist"

\* C16: the locking conditions are tested before divisibility: a
\* total_num_virtual_procs that is no multiple of the process count, given
\* while a locking condition holds, ends with KernelException, and
\* BadProperty is raised only when no locking condition holds.
C16_LocksBeforeDivisibility ==
  /\ (IsSetStatus /\ HasVps /\ CRem(Vps, get_num_processes) # 0 /\ locks # {}) =>
       call.exception = "KernelException"
  /\ (IsSetStatus /\ call.exception = "BadProperty") => locks = {}

C16_Witness ==
  /\ IsSetStatus /\ locks = {1}
  /\ HasVps /\ ~HasLnt /\ CRem(Vps, get_num_processes) # 0
  /\ call.exception = "KernelException"


\* C17: a set_status call that fails on a locking condition gives no
\* notification at all (no resize of the node vector, no
\* Communicator::set_num_threads, no Network::reset) and leaves the
\* degraded flag, the thread count and the collaborators as they were.
C17_RejectionHasNoEffect ==
  (IsSetStatus /\ call.exception = "KernelException") =>
    /\ call.notifications = <<>>
    /\ ~call.network_reset
    /\ force_singlethreading_ = call.pre_force
    /\ n_threads_ = call.pre_threads

C17_Witness ==
  /\ IsSetStatus /\ call.exception = "KernelException"
  /\ HasLnt /\ ~HasVps /\ Lnt = 2
  /\ call.pre_force /\ force_singlethreading_
  /\ call.notifications = <<>>

\* C18: a set_status call whose dictionary holds neither key raises no
\* error, also while locking conditions hold, gives no notification and
\* leaves thread count, degraded flag and collaborators untouched.
C18_NoKeyNoEffect ==
  (IsSetStatus /\ ~HasLnt /\ ~HasVps) =>
    /\ call.exception = "none"
    /\ call.message = "none"
    /\ call.notifications = <<>>
    /\ ~call.network_reset
    /\ force_singlethreading_ = call.pre_force
    /\ n_threads_ = call.pre_threads

C18_Witness ==
  /\ IsSetStatus /\ ~HasLnt /\ ~HasVps
  /\ locks # {}
  /\ call.pre_threads = 2 /\ n_threads_ = 2
  /\ call.exception = "none"


\* the (rank, thread) pairs whose thread_to_vp is vp
Producers(vp) ==
  { p \in Ranks \X Threads : thread_to_vp_at(p[1], p[2]) = vp }

\* C19: thread_to_vp is a bijection from the pairs (rank, thread) onto
\* [0, totalVPs): every VP has exactly one producer, the simulating ranks
\* produce exactly [0, simProcesses * threads) and the recording ranks
\* exactly [simProcesses * threads, totalVPs).
C19_ThreadToVpBijection ==
  LET base == n_sim_procs_ * n_threads_ IN
  /\ \A vp \in VPs : Cardinality(Producers(vp)) = 1
  /\ { thread_to_vp_at(r, t) : r \in 0 .. n_sim_procs_ - 1, t \in Threads }
       = 0 .. base - 1
  /\ { thread_to_vp_at(r, t) : r \in n_sim_procs_ .. get_num_processes - 1,
                               t \in Threads }
       = base .. base + n_rec_procs_ * n_threads_ - 1
  /\ query.op = "thread_to_vp" =>
       /\ query.result \in VPs
       /\ Producers(query.result) = { <<rank, query.arg>> }

C19_Witness ==
  /\ query.op = "thread_to_vp"
  /\ n_sim_procs_ = 2 /\ n_rec_procs_ = 2 /\ n_threads_ = 3 /\ rank = 3
  /\ query.arg = 2 /\ query.result = 11


\* C20: init() without parallel execution, entered with a thread count
\* above 1, pins the thread count to 1 and sets the degraded flag; entered
\* with thread count 1, or with parallel execution, it changes neither; in
\* every case it notifies the collaborators again with the resulting thread
\* count, and it never increases the thread count.
C20_Init ==
  call.op = "init" =>
    /\ (~openmp /\ call.pre_threads > 1) =>
         (n_threads_ = 1 /\ force_singlethreading_)
    /\ (openmp \/ call.pre_threads = 1) =>
         (n_threads_ = call.pre_threads
            /\ force_singlethreading_ = call.pre_force)
    /\ call.notifications = Renotified(n_threads_)
    /\ nodes_vec_size = n_threads_
    /\ comm_n_threads = n_threads_
    /\ n_threads_ <= call.pre_threads

===========================================================================
